---- MODULE Spec2Model ----
(***************************************************************************)
(* Renogy Rover integration: the register decoding of the driver           *)
(* (renogy_rover.py), the serial address scan of the config layer          *)
(* (config_flow.py, connect_and_read_device_info), the config flow         *)
(* (config_flow.py), the entry lifecycle (__init__.py) and the polling     *)
(* sensors (sensor.py).                                                    *)
(***************************************************************************)
EXTENDS Integers, Sequences, FiniteSets, TLC

VARIABLES
    \* connect_and_read_device_info (config_flow.py)
    data,            \* the mapping the function was called with
    pc,              \* "idle" | "scanning" | "returned" | "raised"
    device_address,  \* the loop variable of the scan
    device_info,     \* the dict the function fills and returns
    raised,          \* class of the exception the function raised, or "none"
    probes,          \* history: one [address, fails_at, outcome] per pass of the loop
    \* RenogyRover accessors (renogy_rover.py)
    accessor,        \* name of the accessor last called, or "none"
    registers,       \* the words its register read returned
    result,          \* [status |-> "returned" | "raised" | "none", value |-> ...]
    reads,           \* the register reads that call issued: <<[register, count]>>
    \* the controller polled by the sensors (sensor.py)
    device,          \* the controller's registers: register |-> word
    native_value,    \* sensor |-> its _attr_native_value
    sensor_pc,       \* sensor |-> "idle" | "waiting" | "updating"
    \* the config flow (config_flow.py) and the entry lifecycle (__init__.py)
    merge_side,      \* side of the merge conflict config_flow.py was built from
    flow_result,     \* what the last step of the flow returned
    init_info,       \* RenogyRoverConfigFlow.init_info
    attempt,         \* history: the last submitted user_input and what connecting gave
    entries,         \* the config entries: entry_id |-> [unique_id, data]
    hass_data,       \* hass.data[DOMAIN]: entry_id |-> client
    platforms,       \* the entries whose platforms are set up
    last_op,         \* history: the last setup or unload and its result
    last_ok          \* history: entry_id |-> its last successful operation

scan_vars == <<data, pc, device_address, device_info, raised, probes>>
codec_vars == <<accessor, registers, result, reads>>
poll_vars == <<device, native_value>>
sched_vars == <<sensor_pc>>
flow_vars == <<flow_result, init_info, attempt>>
hass_vars == <<merge_side, flow_vars, entries, hass_data, platforms, last_op, last_ok>>
glue_vars == <<sched_vars, hass_vars>>
platform_vars == <<poll_vars, glue_vars>>
vars == <<data, pc, device_address, device_info, raised, probes,
          accessor, registers, result, reads, device, native_value, sensor_pc,
          merge_side, flow_result, init_info, attempt, entries, hass_data,
          platforms, last_op, last_ok>>

(***************************************************************************)
(* Python values                                                           *)
(***************************************************************************)
None == "None"

\* x & y on non-negative integers
RECURSIVE BitAnd(_, _)
BitAnd(x, y) ==
    IF x = 0 \/ y = 0 THEN 0
    ELSE (IF x % 2 = 1 /\ y % 2 = 1 THEN 1 ELSE 0) + 2 * BitAnd(x \div 2, y \div 2)

\* x >> n on non-negative integers
ShiftRight(x, n) == x \div (2 ^ n)

DecimalDigits == <<"0", "1", "2", "3", "4", "5", "6", "7", "8", "9">>

\* f"{n}" of a non-negative integer: its decimal digits, no padding
RECURSIVE str(_)
str(n) ==
    IF n < 10 THEN DecimalDigits[n + 1]
    ELSE str(n \div 10) \o DecimalDigits[(n % 10) + 1]

(***************************************************************************)
(* renogy_rover.py: decoding of the register words                         *)
(***************************************************************************)
CHARGING_STATE ==
    [i \in 0..6 |->
        <<"deactivated", "activated", "mppt", "equalizing", "boost",
          "floating", "current limiting">>[i + 1]]

\* registers: the 4 words of read_registers(20, 4)
version_low_byte_minor(registers4) ==
    LET soft_major == BitAnd(registers4[1], 255)
        soft_minor == BitAnd(registers4[2], 255)
        soft_patch == BitAnd(registers4[2], 255)
        hard_major == BitAnd(registers4[3], 255)
        hard_minor == BitAnd(registers4[4], 255)
        hard_patch == BitAnd(registers4[4], 255)
    IN  << "V" \o str(soft_major) \o "." \o str(soft_minor) \o "." \o str(soft_patch),
           "V" \o str(hard_major) \o "." \o str(hard_minor) \o "." \o str(hard_patch) >>

version_high_byte_major(registers4) ==
    LET soft_major == ShiftRight(registers4[1], 8)
        soft_minor == ShiftRight(registers4[2], 8)
        soft_patch == BitAnd(registers4[2], 255)
        hard_major == ShiftRight(registers4[3], 8)
        hard_minor == ShiftRight(registers4[4], 8)
        hard_patch == BitAnd(registers4[4], 255)
    IN  << "V" \o str(soft_major) \o "." \o str(soft_minor) \o "." \o str(soft_patch),
           "V" \o str(hard_major) \o "." \o str(hard_minor) \o "." \o str(hard_patch) >>

version(registers4) ==
    LET soft_major == BitAnd(registers4[1], 255)
        soft_minor == ShiftRight(registers4[2], 8)
        soft_patch == BitAnd(registers4[2], 255)
        hard_major == BitAnd(registers4[3], 255)
        hard_minor == ShiftRight(registers4[4], 8)
        hard_patch == BitAnd(registers4[4], 255)
        software_version ==
            "V" \o str(soft_major) \o "." \o str(soft_minor) \o "." \o str(soft_patch)
        hardware_version ==
            "V" \o str(hard_major) \o "." \o str(hard_minor) \o "." \o str(hard_patch)
    IN  <<software_version, hardware_version>>

serial_number_separated(registers2) == str(registers2[1]) \o "-" \o str(registers2[2])

\* registers: the 2 words of read_registers(24, 2)
serial_number(registers2) == str(registers2[1]) \o str(registers2[2])

sign_magnitude_masked(bits) ==
    LET temp_value == BitAnd(bits, 127)
        sign == ShiftRight(bits, 7)
    IN  IF sign = 1 THEN -(temp_value - 128) ELSE temp_value

\* lines 91-93 and 102-104: the decode both temperature accessors apply
\* to their byte
sign_magnitude(bits) ==
    LET temp_value == BitAnd(bits, 255)
        sign == ShiftRight(bits, 7)
    IN  IF sign = 1 THEN -(temp_value - 128) ELSE temp_value

\* register: the word of read_register(259)
battery_temperature(register) ==
    LET battery_temp_bits == BitAnd(register, 255)
    IN  sign_magnitude(battery_temp_bits)

controller_temperature(register) ==
    LET controller_temp_bits == ShiftRight(register, 8)
    IN  sign_magnitude(controller_temp_bits)

charging_status_high_byte(register) == ShiftRight(register, 8)

\* register: the word of read_register(288)
charging_status(register) == BitAnd(register, 255)

\* dict.get(key): the value, or None for a key the dict does not hold
dict_get(dict, key) ==
    IF key \in DOMAIN dict THEN dict[key] ELSE None

charging_status_label(register) == dict_get(CHARGING_STATE, charging_status(register))

\* the characters of code points 32..126 (the double quote and the backquote
\* written as escapes)
PrintableAscii ==
<<
    " ", "!", "\\x22", "#", "$", "%", "&", "'", "(", ")", "*", "+", ",", "-", ".", "/",
    "0", "1", "2", "3", "4", "5", "6", "7", "8", "9", ":", ";", "<", "=", ">", "?",
    "@", "A", "B", "C", "D", "E", "F", "G", "H", "I", "J", "K", "L", "M", "N", "O",
    "P", "Q", "R", "S", "T", "U", "V", "W", "X", "Y", "Z", "[", "\\", "]", "^", "_",
    "\\x60", "a", "b", "c", "d", "e", "f", "g", "h", "i", "j", "k", "l", "m", "n", "o",
    "p", "q", "r", "s", "t", "u", "v", "w", "x", "y", "z", "{", "|", "}", "~" >>

HexDigits ==
    <<"0", "1", "2", "3", "4", "5", "6", "7", "8", "9", "a", "b", "c", "d", "e", "f">>

\* the character of one byte of a register; a byte outside the printable
\* range is written as its escape \xhh
chr(b) ==
    IF b >= 32 /\ b <= 126 THEN PrintableAscii[b - 31]
    ELSE "\\x" \o HexDigits[(b \div 16) + 1] \o HexDigits[(b % 16) + 1]

\* minimalmodbus read_string: two characters per register, high byte first
RECURSIVE read_string(_)
read_string(words) ==
    IF words = <<>> THEN ""
    ELSE chr(ShiftRight(Head(words), 8)) \o chr(BitAnd(Head(words), 255))
         \o read_string(Tail(words))

model_seven_registers(registers8) == read_string(SubSeq(registers8, 1, 7))

\* registers: the 8 words of read_string(12, number_of_registers=8)
model(registers8) == read_string(registers8)

\* the register read an accessor issues: first register and count
read_request(name) ==
    CASE name = "model" -> [register |-> 12, count |-> 8]
      [] name = "version" -> [register |-> 20, count |-> 4]
      [] name = "serial_number" -> [register |-> 24, count |-> 2]
      [] name = "battery_temperature" -> [register |-> 259, count |-> 1]
      [] name = "controller_temperature" -> [register |-> 259, count |-> 1]
      [] name = "solar_power" -> [register |-> 265, count |-> 1]
      [] name = "charging_status_label" -> [register |-> 288, count |-> 1]

(***************************************************************************)
(* Python dicts and exceptions                                             *)
(***************************************************************************)
EmptyDict == [k \in {} |-> None]

\* dict[key] = value
dict_set(dict, key, value) ==
    [k \in (DOMAIN dict) \cup {key} |-> IF k = key THEN value ELSE dict[k]]

\* dict.get(key, default)
dict_get_default(dict, key, default) ==
    IF key \in DOMAIN dict THEN dict[key] ELSE default

NoException == [class |-> "none", errno |-> 0]

\* errno of "No such device"
ENODEV == 19

\* serial.SerialException, raised when the port cannot be opened: with
\* errno ENODEV, or with another errno (13, permission denied)
SerialExceptions == {[class |-> "SerialException", errno |-> e] : e \in {ENODEV, 13}}

\* minimalmodbus.NoResponseError: no bytes within the timeout
NoResponseError == [class |-> "NoResponseError", errno |-> 0]

\* the other exceptions a read can raise: a malformed answer, a value the
\* library refuses
OtherExceptions ==
    {[class |-> c, errno |-> 0] : c \in {"InvalidResponseError", "ValueError"}}

(***************************************************************************)
(* const.py, and the keys of the data and device_info dicts                *)
(***************************************************************************)
MIN_DEVICE_ADDRESS == 1
MAX_DEVICE_ADDRESS == 247

ATTR_DEVICE_ADDRESS == "device_address"
ATTR_SERIAL_NUMBER == "serial_number"
ATTR_SW_VERSION == "sw_version"
ATTR_HW_VERSION == "hw_version"
ATTR_MODEL == "model"
CONF_TYPE == "type"
CONF_PORT == "port"
DEVICE_TYPE_UART == "uart"
DEVICE_TYPE_TCP == "tcp"
CONF_HOST == "host"

(***************************************************************************)
(* The bus: what a client constructed at an address meets                  *)
(***************************************************************************)
\* devices answer only at the MaxDevices lowest and the MaxDevices highest
\* addresses of the bus
MaxDevices == 2

\* a device address in the data runs from 0 up to MaxOverrun past
\* MAX_DEVICE_ADDRESS
MaxOverrun == 2

DeviceAddresses ==
    {a \in MIN_DEVICE_ADDRESS..MAX_DEVICE_ADDRESS :
        a - MIN_DEVICE_ADDRESS < MaxDevices \/ MAX_DEVICE_ADDRESS - a < MaxDevices}

\* the registers of the device at an address: every device holds its own
\* address in its model, software version and serial number
DeviceRegisters(address, first, count) ==
    LET word(r) ==
            CASE r \in 12..18 ->
                    <<8224, 21070, 18221, 17236, 21068, 11602, 22098>>[r - 11]
              [] r = 19 -> (48 + ((address \div 10) % 10)) * 256 + 48 + (address % 10)
              [] r = 20 -> 256 + (address % 256)
              [] r = 21 -> 515
              [] r = 22 -> 263
              [] r = 23 -> 1026
              [] r = 24 -> 1234
              [] r = 25 -> address
              [] OTHER -> 0
    IN  [i \in 1..count |-> word(first + i - 1)]

\* one pass of the try body: the call that raises, if any, and what it raises
Environment(address) ==
    {[fails_at |-> "never", exc |-> NoException]}
        \cup {[fails_at |-> "RenogyRoverUART", exc |-> e] :
                e \in SerialExceptions \cup OtherExceptions}
        \cup {[fails_at |-> s, exc |-> e] :
                s \in {"serial_number", "version", "model"},
                e \in SerialExceptions \cup {NoResponseError} \cup OtherExceptions}

\* only a device answers a read
Answers(address, env) ==
    env.fails_at \in {"version", "model", "never"} => address \in DeviceAddresses

(***************************************************************************)
(* config_flow.py: connect_and_read_device_info, the UART branch           *)
(***************************************************************************)
ComPort == "/dev/ttyUSB0"

AddressInputs == 0..(MAX_DEVICE_ADDRESS + MaxOverrun)

\* the data of a call: type and port, with or without a device address
DataInputs ==
    LET base == dict_set(dict_set(EmptyDict, CONF_TYPE, DEVICE_TYPE_UART),
                         CONF_PORT, ComPort)
    IN  {base} \cup {dict_set(base, ATTR_DEVICE_ADDRESS, a) : a \in AddressInputs}

min_device_address_default(d) == MIN_DEVICE_ADDRESS

min_device_address(d) == dict_get_default(d, ATTR_DEVICE_ADDRESS, MIN_DEVICE_ADDRESS)

max_device_address(d) == dict_get_default(d, ATTR_DEVICE_ADDRESS, MAX_DEVICE_ADDRESS)

\* range(...): the value after address
range_next_step_two(address) == address + 2

range_next(address) == address + 1

try_body_setdefault(info, port, address, env) ==
    LET keep(d, k, v) == IF k \in DOMAIN d THEN d ELSE dict_set(d, k, v)
        ver == version(DeviceRegisters(address, 20, 4))
        i1 == dict_set(info, ATTR_DEVICE_ADDRESS, address)
        i2 == keep(i1, ATTR_SERIAL_NUMBER,
                   serial_number(DeviceRegisters(address, 24, 2)))
        i3 == keep(keep(i2, ATTR_SW_VERSION, ver[1]), ATTR_HW_VERSION, ver[2])
        i4 == dict_set(i3, ATTR_MODEL, model(DeviceRegisters(address, 12, 8)))
    IN  CASE env.fails_at = "RenogyRoverUART" -> [device_info |-> info, exc |-> env.exc]
          [] env.fails_at = "serial_number"   -> [device_info |-> i1, exc |-> env.exc]
          [] env.fails_at = "version"         -> [device_info |-> i2, exc |-> env.exc]
          [] env.fails_at = "model"           -> [device_info |-> i3, exc |-> env.exc]
          [] OTHER                            -> [device_info |-> i4, exc |-> NoException]

\* lines 54-59: the client is constructed, then device_info is filled key by
\* key until a call raises
try_body(info, port, address, env) ==
    LET ver == version(DeviceRegisters(address, 20, 4))
        i1 == dict_set(info, ATTR_DEVICE_ADDRESS, address)
        i2 == dict_set(i1, ATTR_SERIAL_NUMBER,
                       serial_number(DeviceRegisters(address, 24, 2)))
        i3 == dict_set(dict_set(i2, ATTR_SW_VERSION, ver[1]), ATTR_HW_VERSION, ver[2])
        i4 == dict_set(i3, ATTR_MODEL, model(DeviceRegisters(address, 12, 8)))
    IN  CASE env.fails_at = "RenogyRoverUART" -> [device_info |-> info, exc |-> env.exc]
          [] env.fails_at = "serial_number"   -> [device_info |-> i1, exc |-> env.exc]
          [] env.fails_at = "version"         -> [device_info |-> i2, exc |-> env.exc]
          [] env.fails_at = "model"           -> [device_info |-> i3, exc |-> env.exc]
          [] OTHER                            -> [device_info |-> i4, exc |-> NoException]

loop_control_no_break(exc, address, max) ==
    IF exc = NoException THEN "continue"
    ELSE IF exc.class = "SerialException"
         THEN IF exc.errno = ENODEV THEN "InvalidPort" ELSE "CannotOpenPort"
    ELSE IF exc.class = "NoResponseError"
         THEN IF address = max THEN "NoDeviceFound" ELSE "continue"
    ELSE "reraise"

loop_control_raise_early(exc, address, max) ==
    IF exc = NoException THEN "break"
    ELSE IF exc.class = "SerialException"
         THEN IF exc.errno = ENODEV THEN "InvalidPort" ELSE "CannotOpenPort"
    ELSE IF exc.class = "NoResponseError"
         THEN IF address >= max - 1 THEN "NoDeviceFound" ELSE "continue"
    ELSE "reraise"

loop_control_swallow(exc, address, max) ==
    IF exc = NoException THEN "break"
    ELSE IF exc.class = "SerialException"
         THEN IF exc.errno = ENODEV THEN "InvalidPort" ELSE "CannotOpenPort"
    ELSE IF address = max THEN "NoDeviceFound" ELSE "continue"

\* lines 53-76: what the loop does after the try body: break on success,
\* else the except clause that catches the exception
loop_control(exc, address, max) ==
    IF exc = NoException THEN "break"
    ELSE IF exc.class = "SerialException"
         THEN IF exc.errno = ENODEV THEN "InvalidPort" ELSE "CannotOpenPort"
    ELSE IF exc.class = "NoResponseError"
         THEN IF address = max THEN "NoDeviceFound" ELSE "continue"
    ELSE "reraise"

\* lines 44-52: the call, up to the first pass of the loop
connect_and_read_device_info(d) ==
    /\ pc = "idle"
    /\ d[CONF_TYPE] = DEVICE_TYPE_UART
    /\ data' = d
    /\ device_info' = EmptyDict
    /\ device_address' = min_device_address(d)
    /\ pc' = IF min_device_address(d) <= max_device_address(d)
             THEN "scanning" ELSE "returned"
    /\ raised' = "none"
    /\ probes' = <<>>
    /\ UNCHANGED <<codec_vars, platform_vars>>

\* one pass of the loop (lines 52-76) under env, ending in `control`
ScanPass(env, control) ==
    /\ Answers(device_address, env)
    /\ LET r == try_body(device_info, data[CONF_PORT], device_address, env)
           max == max_device_address(data)
           c == loop_control(r.exc, device_address, max)
       IN  /\ c = control
           /\ device_info' = r.device_info
           /\ probes' = Append(probes,
                  [address |-> device_address,
                   fails_at |-> env.fails_at,
                   outcome |-> IF r.exc = NoException THEN "ok" ELSE r.exc.class])
           /\ CASE c = "break" ->
                    \* line 61, then line 102
                    /\ pc' = "returned"
                    /\ UNCHANGED <<device_address, raised>>
                [] c = "continue" ->
                    \* line 73; the loop ends when the range is used up
                    IF range_next(device_address) <= max
                    THEN /\ device_address' = range_next(device_address)
                         /\ UNCHANGED <<pc, raised>>
                    ELSE /\ pc' = "returned"
                         /\ UNCHANGED <<device_address, raised>>
                [] c = "reraise" ->
                    \* line 76
                    /\ pc' = "raised"
                    /\ raised' = r.exc.class
                    /\ UNCHANGED device_address
                [] OTHER ->
                    \* lines 65, 67, 71
                    /\ pc' = "raised"
                    /\ raised' = c
                    /\ UNCHANGED device_address
    /\ UNCHANGED <<data, accessor, registers, result, reads, platform_vars>>

\* the identifying reads succeed: break, return device_info
ScanBreak ==
    /\ pc = "scanning"
    /\ \E env \in Environment(device_address) : ScanPass(env, "break")

\* no response, and addresses are left: on to the next address
ScanContinue ==
    /\ pc = "scanning"
    /\ \E env \in Environment(device_address) : ScanPass(env, "continue")

\* SerialException with errno 19
ScanInvalidPort ==
    /\ pc = "scanning"
    /\ \E env \in Environment(device_address) : ScanPass(env, "InvalidPort")

\* any other SerialException
ScanCannotOpenPort ==
    /\ pc = "scanning"
    /\ \E env \in Environment(device_address) : ScanPass(env, "CannotOpenPort")

\* no response at the last address of the range
ScanNoDeviceFound ==
    /\ pc = "scanning"
    /\ \E env \in Environment(device_address) : ScanPass(env, "NoDeviceFound")

\* any other exception is raised again
ScanReraise ==
    /\ pc = "scanning"
    /\ \E env \in Environment(device_address) : ScanPass(env, "reraise")

ScanAny ==
    \/ ScanBreak
    \/ ScanContinue
    \/ ScanInvalidPort
    \/ ScanCannotOpenPort
    \/ ScanNoDeviceFound
    \/ ScanReraise

\* no call of connect_and_read_device_info yet
ScanIdle ==
    /\ data = EmptyDict
    /\ pc = "idle"
    /\ device_address = MIN_DEVICE_ADDRESS
    /\ device_info = EmptyDict
    /\ raised = "none"
    /\ probes = <<>>

\* no accessor called yet
CodecIdle ==
    /\ accessor = "none"
    /\ registers = <<>>
    /\ result = [status |-> "none", value |-> None]
    /\ reads = <<>>

\* the registers the modelled sensors poll: temperatures and charging state
PollRegisters == {259, 288}

\* the sensors of sensor.py whose accessor decodes its register
PolledSensors == {"ControllerTemperatureSensor", "ChargingStatusSensor"}

\* no sensor updated yet
PollIdle ==
    /\ device = [r \in PollRegisters |-> 0]
    /\ native_value = [s \in PolledSensors |-> None]

\* the entities async_setup_entry of sensor.py adds, all on one client
Sensors ==
    {"SolarVoltageSensor", "SolarCurrentSensor", "SolarPowerSensor",
     "BatteryVoltageSensor", "EnergyProductionTodaySensor",
     "ControllerTemperatureSensor", "ChargingStatusSensor"}

\* no update scheduled
SchedIdle == sensor_pc = [s \in Sensors |-> "idle"]

\* what a step of the flow returns
FlowResult(type, step_id, errors, reason) ==
    [type |-> type, step_id |-> step_id, errors |-> errors, reason |-> reason]

NoAttempt ==
    [user_input |-> EmptyDict,
     outcome |-> [status |-> "none", device_info |-> EmptyDict, raised |-> "none",
                  cause |-> NoException]]

NoOperation == [op |-> "none", entry_id |-> 0, result |-> "none", device_info |-> EmptyDict]

\* no flow started, no entry
HassIdle ==
    /\ merge_side = "HEAD"
    /\ flow_result = FlowResult("none", "none", EmptyDict, "none")
    /\ init_info = None
    /\ attempt = NoAttempt
    /\ entries = <<>>
    /\ hass_data = EmptyDict
    /\ platforms = {}
    /\ last_op = NoOperation
    /\ last_ok = EmptyDict

PlatformIdle == PollIdle /\ SchedIdle /\ HassIdle

Init ==
    /\ ScanIdle
    /\ CodecIdle
    /\ PlatformIdle

Next ==
    \/ \E d \in DataInputs : connect_and_read_device_info(d)
    \/ ScanBreak
    \/ ScanContinue
    \/ ScanInvalidPort
    \/ ScanCannotOpenPort
    \/ ScanNoDeviceFound
    \/ ScanReraise

Spec == Init /\ [][Next]_vars

(***************************************************************************)
(* renogy_rover.py: the accessors, each applied to the words its register  *)
(* read returns                                                            *)
(***************************************************************************)
Byte == 0..255
SampleBytes == {0, 1, 9, 10, 127, 128, 255}

\* a word of every low byte, and a word of every high byte
ByteSweepWords ==
    {hi * 256 + lo : hi \in SampleBytes, lo \in Byte}
        \cup {hi * 256 + lo : hi \in Byte, lo \in SampleBytes}

VersionWords ==
    {hi * 256 + lo : hi \in {0, 10, 255}, lo \in {0, 10, 255}}
        \cup {261, 515, 263, 1026}

SerialWords == {0, 7, 10, 1234, 5678, 65535}

\* "RV", "R " and two spaces
ModelWords == {21078, 21024, 8224}

\* what read_register / read_registers returns to an accessor
RegisterInputs ==
    {<<w>> : w \in ByteSweepWords}
        \cup {<<w0, w1>> : w0 \in SerialWords, w1 \in SerialWords}
        \cup {<<w0, w1, w2, w3>> : w0 \in VersionWords, w1 \in VersionWords,
                                    w2 \in VersionWords, w3 \in VersionWords}
        \cup [1..8 -> ModelWords]

Returned(value) == [status |-> "returned", value |-> value]

Accessor(name, count, value) ==
    /\ accessor = "none"
    /\ Len(registers) = count
    /\ accessor' = name
    /\ result' = Returned(value)
    /\ reads' = <<read_request(name)>>
    /\ UNCHANGED <<registers, data, pc, device_address, device_info, raised, probes,
                   platform_vars>>

CallModel ==
    /\ Len(registers) = 8
    /\ Accessor("model", 8, model(registers))

CallVersion ==
    /\ Len(registers) = 4
    /\ Accessor("version", 4, version(registers))

CallSerialNumber ==
    /\ Len(registers) = 2
    /\ Accessor("serial_number", 2, serial_number(registers))

CallBatteryTemperature ==
    /\ Len(registers) = 1
    /\ Accessor("battery_temperature", 1, battery_temperature(registers[1]))

CallControllerTemperature ==
    /\ Len(registers) = 1
    /\ Accessor("controller_temperature", 1, controller_temperature(registers[1]))

CallChargingStatusLabel ==
    /\ Len(registers) = 1
    /\ Accessor("charging_status_label", 1, charging_status_label(registers[1]))

\* the register read of an accessor raises and returns no words: the
\* accessor raises the same
CallRaises ==
    /\ accessor = "none"
    /\ \E name \in {"model", "version", "serial_number", "battery_temperature",
                    "controller_temperature", "charging_status_label"},
          e \in {NoResponseError} \cup OtherExceptions :
            /\ accessor' = name
            /\ result' = [status |-> "raised", value |-> e.class]
            /\ reads' = <<read_request(name)>>
    /\ registers' = <<>>
    /\ UNCHANGED <<data, pc, device_address, device_info, raised, probes, platform_vars>>

CodecInit ==
    /\ ScanIdle
    /\ accessor = "none"
    /\ registers \in RegisterInputs
    /\ result = [status |-> "none", value |-> None]
    /\ reads = <<>>
    /\ PlatformIdle

CodecNext ==
    \/ CallModel
    \/ CallVersion
    \/ CallSerialNumber
    \/ CallBatteryTemperature
    \/ CallControllerTemperature
    \/ CallChargingStatusLabel
    \/ CallRaises

CodecSpec == CodecInit /\ [][CodecNext]_vars

(***************************************************************************)
(* sensor.py and renogy_rover.py: polling a controller whose registers     *)
(* change between the calls.                                               *)
(***************************************************************************)
\* 0x0002, 0x0A85 and 0x8A05
PollWords == {2, 2693, 35333}

read_register_cached(register) ==
    IF reads = <<[register |-> register, count |-> 1]>> /\ Len(registers) = 1
    THEN registers[1]
    ELSE device[register]

\* self.read_register(register): the word the controller holds now
read_register(register) == device[register]

\* what the accessor makes of the word it read
accessor_value(name, word) ==
    CASE name = "battery_temperature" -> battery_temperature(word)
      [] name = "controller_temperature" -> controller_temperature(word)
      [] name = "charging_status_label" -> charging_status_label(word)

\* client.<name>(): one read_register, decoded
PollAccessor(name) ==
    LET word == read_register(read_request(name).register)
    IN  /\ accessor' = name
        /\ reads' = <<read_request(name)>>
        /\ registers' = <<word>>
        /\ result' = Returned(accessor_value(name, word))

\* the controller's measurement changes
DeviceChanges ==
    /\ \E register \in PollRegisters, word \in PollWords :
          /\ device[register] # word
          /\ device' = [device EXCEPT ![register] = word]
    /\ UNCHANGED <<scan_vars, codec_vars, native_value, glue_vars>>

PollBatteryTemperature ==
    /\ PollAccessor("battery_temperature")
    /\ UNCHANGED <<scan_vars, poll_vars, glue_vars>>

PollControllerTemperature ==
    /\ PollAccessor("controller_temperature")
    /\ UNCHANGED <<scan_vars, poll_vars, glue_vars>>

ControllerTemperatureSensor_update ==
    /\ PollAccessor("controller_temperature")
    /\ native_value' = [native_value EXCEPT !["ControllerTemperatureSensor"] = result'.value]
    /\ UNCHANGED <<scan_vars, device, glue_vars>>

ChargingStatusSensor_update ==
    /\ PollAccessor("charging_status_label")
    /\ native_value' = [native_value EXCEPT !["ChargingStatusSensor"] = result'.value]
    /\ UNCHANGED <<scan_vars, device, glue_vars>>

\* the read of an update fails: the sensor keeps its value
SensorUpdateRaises ==
    /\ \E name \in {"controller_temperature", "charging_status_label"},
          e \in {NoResponseError} \cup OtherExceptions :
            /\ accessor' = name
            /\ reads' = <<read_request(name)>>
            /\ result' = [status |-> "raised", value |-> e.class]
    /\ registers' = <<>>
    /\ UNCHANGED <<scan_vars, poll_vars, glue_vars>>

PollInit ==
    /\ ScanIdle
    /\ CodecIdle
    /\ device \in [PollRegisters -> PollWords]
    /\ native_value = [s \in PolledSensors |-> None]
    /\ SchedIdle
    /\ HassIdle

PollNext ==
    \/ DeviceChanges
    \/ PollBatteryTemperature
    \/ PollControllerTemperature
    \/ ControllerTemperatureSensor_update
    \/ ChargingStatusSensor_update
    \/ SensorUpdateRaises

PollSpec == PollInit /\ [][PollNext]_vars

(***************************************************************************)
(* sensor.py: the updates of the sensors of one entry.  Home Assistant     *)
(* polls every sensor each SCAN_INTERVAL and runs the synchronous update() *)
(* in a worker thread, behind the semaphore PARALLEL_UPDATES asks for.     *)
(***************************************************************************)
\* sensor.py line 28
PARALLEL_UPDATES == 1

\* the sensors inside update(), each with a read in flight on the client
Updating == {s \in Sensors : sensor_pc[s] = "updating"}

update_permitted_unlimited(updating) == TRUE

\* the semaphore of the platform: PARALLEL_UPDATES permits, 0 for no limit
update_permitted(updating) ==
    PARALLEL_UPDATES = 0 \/ Cardinality(updating) < PARALLEL_UPDATES

\* SCAN_INTERVAL has passed: the update of the sensor is due
update_scheduled(sensor) ==
    /\ sensor_pc[sensor] = "idle"
    /\ sensor_pc' = [sensor_pc EXCEPT ![sensor] = "waiting"]
    /\ UNCHANGED <<scan_vars, codec_vars, poll_vars, hass_vars>>

\* the semaphore is acquired: update() starts and calls its accessor
update_begins(sensor) ==
    /\ sensor_pc[sensor] = "waiting"
    /\ update_permitted(Updating)
    /\ sensor_pc' = [sensor_pc EXCEPT ![sensor] = "updating"]
    /\ UNCHANGED <<scan_vars, codec_vars, poll_vars, hass_vars>>

\* update() returns or raises: the semaphore is released
update_returns(sensor) ==
    /\ sensor_pc[sensor] = "updating"
    /\ sensor_pc' = [sensor_pc EXCEPT ![sensor] = "idle"]
    /\ UNCHANGED <<scan_vars, codec_vars, poll_vars, hass_vars>>

SchedInit ==
    /\ ScanIdle
    /\ CodecIdle
    /\ PlatformIdle

SchedNext ==
    \/ \E sensor \in Sensors : update_scheduled(sensor)
    \/ \E sensor \in Sensors : update_begins(sensor)
    \/ \E sensor \in Sensors : update_returns(sensor)

SchedSpec == SchedInit /\ [][SchedNext]_vars

(***************************************************************************)
(* config_flow.py: the config flow; __init__.py: setting up and unloading  *)
(* a config entry.  connect_and_read_device_info is taken here by its      *)
(* outcome: the device info it returns or the exception it raises.         *)
(***************************************************************************)
\* the flow creates entries only while fewer than MaxEntries exist
MaxEntries == 1

\* word 0 of the serial number of the units that can sit on the bus
Units == {1234, 5678}

\* and of the units behind a TCP gateway: a unit is wired to one transport
TcpUnits == {4321, 8765}

\* the bus of the flow holds a device at each end of the address range
FlowDeviceAddresses == {MIN_DEVICE_ADDRESS, MAX_DEVICE_ADDRESS}

TcpHost == "rover.local"

\* the port the TCP form offers and a client without port argument uses
DEFAULT_TCP_PORT == 502

TcpPorts == {DEFAULT_TCP_PORT, 1502}

MergeSides == {"HEAD", "a12d2b6"}

\* dict.update(other)
dict_update(dict, other) ==
    [k \in (DOMAIN dict) \cup (DOMAIN other) |->
        IF k \in DOMAIN other THEN other[k] ELSE dict[k]]

\* dict.pop(key), the key being there
dict_pop(dict, key) == [k \in (DOMAIN dict) \ {key} |-> dict[k]]

\* the clients of renogy_rover.py, by what they connect to
RenogyRoverUART(portname, slaveaddress) ==
    [transport |-> "uart", portname |-> portname, slaveaddress |-> slaveaddress]

RenogyRoverTCP(host, port) ==
    [transport |-> "tcp", host |-> host, port |-> port]

\* the device_info lines 54-59 fill at an address holding the given unit
UnitDeviceInfo(unit, address) ==
    dict_set(try_body(EmptyDict, ComPort, address,
                      [fails_at |-> "never", exc |-> NoException]).device_info,
             ATTR_SERIAL_NUMBER, serial_number(<<unit, address>>))

\* the device_info lines 90-92 fill: the TCP branch sets no device address
TcpDeviceInfo(unit) ==
    dict_pop(UnitDeviceInfo(unit, MIN_DEVICE_ADDRESS), ATTR_DEVICE_ADDRESS)

\* the device infos, tabulated
UartDeviceInfos == [u \in Units |-> [a \in DeviceAddresses |-> UnitDeviceInfo(u, a)]]

TcpDeviceInfos == [u \in TcpUnits |-> TcpDeviceInfo(u)]

\* the client the TCP branch connects with (lines 80-89): the HEAD side
\* passes the host only
tcp_client(d, side) ==
    IF side = "HEAD"
    THEN RenogyRoverTCP(d[CONF_HOST], DEFAULT_TCP_PORT)
    ELSE RenogyRoverTCP(d[CONF_HOST], d[CONF_PORT])

\* how a call of connect_and_read_device_info ended
Outcome(status, info, class, cause) ==
    [status |-> status, device_info |-> info, raised |-> class, cause |-> cause]

\* connect_and_read_device_info(hass, d): every way the call can end on a
\* bus with devices at `addresses`.  UART: a device found in the range, or
\* the exception the loop raises for the exception `cause` of its last pass.
\* TCP: the info read, or NameError, CannotConnect (line 100) being a name
\* the module never defines.
connect_results(d, addresses) ==
    IF d[CONF_TYPE] = DEVICE_TYPE_UART
    THEN LET lo == min_device_address(d)
             hi == max_device_address(d)
             class(e) == IF loop_control(e, hi, hi) = "reraise"
                         THEN e.class ELSE loop_control(e, hi, hi)
         IN  {Outcome("returned", UartDeviceInfos[u][a], "none", NoException) :
                     u \in Units, a \in (lo..hi) \cap addresses}
             \cup {Outcome("raised", EmptyDict, class(e), e) :
                     e \in SerialExceptions \cup {NoResponseError} \cup OtherExceptions}
    ELSE {Outcome("returned", TcpDeviceInfos[u], "none", NoException) : u \in TcpUnits}
         \cup {Outcome("raised", EmptyDict, "NameError", e) :
                 e \in {NoResponseError} \cup OtherExceptions}

uart_error_one_port_code(class) ==
    CASE class = "InvalidPort" -> "cannot_open_serial_port"
      [] class = "CannotOpenPort" -> "cannot_open_serial_port"
      [] class = "NoDeviceFound" -> "no_device_found"
      [] OTHER -> "cannot_connect"

\* lines 175-187: the except clause that catches the exception class
uart_error(class) ==
    CASE class = "InvalidPort" -> "invalid_serial_port"
      [] class = "CannotOpenPort" -> "cannot_open_serial_port"
      [] class = "NoDeviceFound" -> "no_device_found"
      [] OTHER -> "cannot_connect"

\* the entries whose unique id is the serial number
configured(serial) == {i \in 1..Len(entries) : entries[i].unique_id = serial}

\* _abort_if_unique_id_configured(updates): the entries after the update
abort_updates(serial, updates) ==
    [i \in 1..Len(entries) |->
        IF entries[i].unique_id = serial
        THEN [entries[i] EXCEPT !.data = dict_update(@, updates)]
        ELSE entries[i]]

finish_flow_without_input(step_id, user_input, info, updates) ==
    LET serial == info[ATTR_SERIAL_NUMBER]
    IN  IF configured(serial) # {}
        THEN /\ entries' = abort_updates(serial, updates)
             /\ init_info' = info
             /\ flow_result' = FlowResult("abort", step_id, EmptyDict, "already_configured")
        ELSE /\ Len(entries) < MaxEntries
             /\ init_info' = info
             /\ entries' = Append(entries, [unique_id |-> serial, data |-> init_info'])
             /\ flow_result' = FlowResult("create_entry", step_id, EmptyDict, "none")

\* lines 189-194 and 225-241: the connection succeeded with device info
\* `info`; abort when the serial number is configured, else create the entry
finish_flow(step_id, user_input, info, updates) ==
    LET serial == info[ATTR_SERIAL_NUMBER]
    IN  IF configured(serial) # {}
        THEN /\ entries' = abort_updates(serial, updates)
             /\ init_info' = info
             /\ flow_result' = FlowResult("abort", step_id, EmptyDict, "already_configured")
        ELSE /\ Len(entries) < MaxEntries
             /\ init_info' = dict_update(info, user_input)
             /\ entries' = Append(entries, [unique_id |-> serial, data |-> init_info'])
             /\ flow_result' = FlowResult("create_entry", step_id, EmptyDict, "none")

\* a flow is started: __init__, async_step_user, the device type form
async_step_user ==
    /\ flow_result.type \in {"none", "create_entry", "abort"}
    /\ init_info' = None
    /\ attempt' = NoAttempt
    /\ flow_result' = FlowResult("form", "device_type", EmptyDict, "none")
    /\ UNCHANGED <<scan_vars, codec_vars, poll_vars, sched_vars,
                   merge_side, entries, hass_data, platforms, last_op, last_ok>>

\* the device type is submitted; for uart the serial ports are listed first
async_step_device_type(user_input) ==
    /\ flow_result.type = "form"
    /\ flow_result.step_id = "device_type"
    /\ init_info' = user_input
    /\ IF user_input[CONF_TYPE] = DEVICE_TYPE_UART
       THEN \E default_com_port \in {None, ComPort} :
               flow_result' =
                   IF default_com_port = None
                   THEN FlowResult("abort", "uart", EmptyDict, "no_serial_ports")
                   ELSE FlowResult("form", "uart", EmptyDict, "none")
       ELSE flow_result' = FlowResult("form", "tcp", EmptyDict, "none")
    /\ UNCHANGED <<scan_vars, codec_vars, poll_vars, sched_vars,
                   merge_side, attempt, entries, hass_data, platforms, last_op, last_ok>>

\* the serial port is submitted
async_step_uart(user_input) ==
    /\ flow_result.type = "form"
    /\ flow_result.step_id = "uart"
    /\ LET input == dict_update(user_input, init_info)
       IN  \E outcome \in connect_results(input, FlowDeviceAddresses) :
             /\ attempt' = [user_input |-> input, outcome |-> outcome]
             /\ IF outcome.status = "raised"
                THEN /\ flow_result' =
                          FlowResult("form", "uart",
                                     dict_set(EmptyDict, "base", uart_error(outcome.raised)),
                                     "none")
                     /\ UNCHANGED <<init_info, entries>>
                ELSE finish_flow("uart", input, outcome.device_info,
                                 dict_set(EmptyDict, CONF_PORT, input[CONF_PORT]))
    /\ UNCHANGED <<scan_vars, codec_vars, poll_vars, sched_vars,
                   merge_side, hass_data, platforms, last_op, last_ok>>

\* the fields of the TCP form: the port only on the a12d2b6 side (line 247)
TcpInputs(side) ==
    IF side = "HEAD"
    THEN {dict_set(EmptyDict, CONF_HOST, TcpHost)}
    ELSE {dict_set(dict_set(EmptyDict, CONF_HOST, TcpHost), CONF_PORT, p) : p \in TcpPorts}

\* what _abort_if_unique_id_configured updates in the TCP step
tcp_updates(input, side) ==
    IF side = "HEAD"
    THEN dict_set(EmptyDict, CONF_HOST, input[CONF_HOST])
    ELSE dict_set(dict_set(EmptyDict, CONF_HOST, input[CONF_HOST]),
                  CONF_PORT, input[CONF_PORT])

\* host (and port) are submitted.  A failed connection leaves the handler
\* by NameError: neither except clause is reached, CannotConnect in line 215
\* being undefined.
async_step_tcp(user_input) ==
    /\ user_input \in TcpInputs(merge_side)
    /\ flow_result.type \in {"form", "raised"}
    /\ flow_result.step_id = "tcp"
    /\ LET input == dict_update(user_input, init_info)
       IN  \E outcome \in connect_results(input, FlowDeviceAddresses) :
             /\ attempt' = [user_input |-> input, outcome |-> outcome]
             /\ IF outcome.status = "raised"
                THEN /\ flow_result' = FlowResult("raised", "tcp", EmptyDict, "NameError")
                     /\ UNCHANGED <<init_info, entries>>
                ELSE finish_flow("tcp", input, outcome.device_info,
                                 tcp_updates(input, merge_side))
    /\ UNCHANGED <<scan_vars, codec_vars, poll_vars, sched_vars,
                   merge_side, hass_data, platforms, last_op, last_ok>>

device_matches_entry_any(info, entry) == TRUE

\* __init__.py lines 49-53
device_matches_entry(info, entry) ==
    info[ATTR_SERIAL_NUMBER] = entry.data[ATTR_SERIAL_NUMBER]

\* __init__.py lines 31-34: the client stored for polling
entry_client(entry_data) ==
    IF entry_data[CONF_TYPE] = DEVICE_TYPE_UART
    THEN RenogyRoverUART(entry_data[CONF_PORT], entry_data[ATTR_DEVICE_ADDRESS])
    ELSE RenogyRoverTCP(entry_data[CONF_HOST], DEFAULT_TCP_PORT)

Operation(op, entry_id, returned, info) ==
    [op |-> op, entry_id |-> entry_id, result |-> returned, device_info |-> info]

\* __init__.py lines 18-38
async_setup_entry(entry_id) ==
    /\ entry_id \in 1..Len(entries)
    /\ \E outcome \in connect_results(entries[entry_id].data, FlowDeviceAddresses) :
          IF outcome.status = "raised"
          THEN /\ last_op' = Operation("setup", entry_id, "raised", EmptyDict)
               /\ UNCHANGED <<hass_data, platforms, last_ok>>
          ELSE IF ~device_matches_entry(outcome.device_info, entries[entry_id])
          THEN /\ last_op' = Operation("setup", entry_id, "False", outcome.device_info)
               /\ UNCHANGED <<hass_data, platforms, last_ok>>
          ELSE /\ hass_data' = dict_set(hass_data, entry_id,
                                        entry_client(entries[entry_id].data))
               /\ platforms' = platforms \cup {entry_id}
               /\ last_op' = Operation("setup", entry_id, "True", outcome.device_info)
               /\ last_ok' = dict_set(last_ok, entry_id, "setup")
    /\ UNCHANGED <<scan_vars, codec_vars, poll_vars, sched_vars,
                   merge_side, flow_vars, entries>>

unload_pops_unconditionally(unload_ok) == TRUE

\* line 43: the client is popped if unloading the platforms succeeded
unload_pops(unload_ok) == unload_ok

\* __init__.py lines 41-46; popping an entry that has no client is a KeyError
async_unload_entry(entry_id) ==
    /\ entry_id \in 1..Len(entries)
    /\ \E unload_ok \in BOOLEAN :
          /\ platforms' = IF unload_ok THEN platforms \ {entry_id} ELSE platforms
          /\ IF ~unload_pops(unload_ok)
             THEN /\ last_op' = Operation("unload", entry_id, "False", EmptyDict)
                  /\ UNCHANGED <<hass_data, last_ok>>
             ELSE IF entry_id \notin DOMAIN hass_data
             THEN /\ last_op' = Operation("unload", entry_id, "raised", EmptyDict)
                  /\ UNCHANGED <<hass_data, last_ok>>
             ELSE /\ hass_data' = dict_pop(hass_data, entry_id)
                  /\ last_op' = Operation("unload", entry_id,
                                          IF unload_ok THEN "True" ELSE "False", EmptyDict)
                  /\ last_ok' = IF unload_ok THEN dict_set(last_ok, entry_id, "unload")
                                ELSE last_ok
    /\ UNCHANGED <<scan_vars, codec_vars, poll_vars, sched_vars,
                   merge_side, flow_vars, entries>>

DeviceTypeInputs ==
    {dict_set(EmptyDict, CONF_TYPE, t) : t \in {DEVICE_TYPE_UART, DEVICE_TYPE_TCP}}

UartInputs == {dict_set(EmptyDict, CONF_PORT, ComPort)}

\* no entry yet, no flow started
FlowInit ==
    /\ ScanIdle
    /\ CodecIdle
    /\ PollIdle
    /\ SchedIdle
    /\ merge_side \in MergeSides
    /\ flow_result = FlowResult("none", "none", EmptyDict, "none")
    /\ init_info = None
    /\ attempt = NoAttempt
    /\ entries = <<>>
    /\ hass_data = EmptyDict
    /\ platforms = {}
    /\ last_op = NoOperation
    /\ last_ok = EmptyDict

FlowNext ==
    \/ async_step_user
    \/ \E user_input \in DeviceTypeInputs : async_step_device_type(user_input)
    \/ \E user_input \in UartInputs : async_step_uart(user_input)
    \/ \E user_input \in UNION {TcpInputs(side) : side \in MergeSides} :
          async_step_tcp(user_input)

FlowSpec == FlowInit /\ [][FlowNext]_vars

\* the entries the flow creates: the device info under the submitted fields
\* and the device type
UartEntryInputs ==
    {[unique_id |-> UartDeviceInfos[u][a][ATTR_SERIAL_NUMBER],
      data |-> dict_update(UartDeviceInfos[u][a],
                           dict_update(input, dict_set(EmptyDict, CONF_TYPE, DEVICE_TYPE_UART)))] :
        u \in Units, a \in FlowDeviceAddresses, input \in UartInputs}

TcpEntryInputs(side) ==
    {[unique_id |-> TcpDeviceInfos[u][ATTR_SERIAL_NUMBER],
      data |-> dict_update(TcpDeviceInfos[u],
                           dict_update(input, dict_set(EmptyDict, CONF_TYPE, DEVICE_TYPE_TCP)))] :
        u \in TcpUnits, input \in TcpInputs(side)}

EntryInputs(side) == UartEntryInputs \cup TcpEntryInputs(side)

\* up to MaxEntries entries, no two with one unique id
EntrySeqs(side) ==
    {es \in UNION {[1..n -> EntryInputs(side)] : n \in 0..MaxEntries} :
        \A i, j \in 1..Len(es) : es[i].unique_id = es[j].unique_id => i = j}

\* the entries exist, none is set up
LifecycleInit ==
    /\ ScanIdle
    /\ CodecIdle
    /\ PollIdle
    /\ SchedIdle
    /\ merge_side \in MergeSides
    /\ flow_result = FlowResult("none", "none", EmptyDict, "none")
    /\ init_info = None
    /\ attempt = NoAttempt
    /\ entries \in EntrySeqs(merge_side)
    /\ hass_data = EmptyDict
    /\ platforms = {}
    /\ last_op = NoOperation
    /\ last_ok = EmptyDict

LifecycleNext ==
    \/ \E entry_id \in 1..MaxEntries : async_setup_entry(entry_id)
    \/ \E entry_id \in 1..MaxEntries : async_unload_entry(entry_id)

LifecycleSpec == LifecycleInit /\ [][LifecycleNext]_vars

(***************************************************************************)
(* The address scan: claims                                                *)
(***************************************************************************)
Started == pc # "idle"
Terminal == pc \in {"returned", "raised"}
HasAddress == ATTR_DEVICE_ADDRESS \in DOMAIN data

\* the range [lo, hi] the data asks for
RangeLo == IF HasAddress THEN data[ATTR_DEVICE_ADDRESS] ELSE 1
RangeHi == IF HasAddress THEN data[ATTR_DEVICE_ADDRESS] ELSE 247

LastProbe == probes[Len(probes)]

Found == pc = "returned" /\ probes # <<>> /\ LastProbe.outcome = "ok"
NoDeviceFound == pc = "raised" /\ raised = "NoDeviceFound"
Aborted == pc = "raised" /\ raised # "NoDeviceFound"

\* C1: the addresses are probed one at a time in ascending order from lo;
\* a pass whose reads succeed is the last one, the function returns its
\* address, and no greater address is probed.
C1_AscendingStopsAtFirstFound ==
    Started =>
        /\ \A i \in 1..Len(probes) : probes[i].address = RangeLo + i - 1
        /\ pc = "scanning" => device_address = RangeLo + Len(probes)
        /\ \A i \in 1..Len(probes) :
              probes[i].outcome = "ok" => i = Len(probes) /\ pc = "returned"
        /\ pc = "returned" =>
              /\ Found
              /\ device_info[ATTR_DEVICE_ADDRESS] = LastProbe.address
              /\ \A i \in 1..Len(probes) :
                    probes[i].address <= device_info[ATTR_DEVICE_ADDRESS]

\* full range, only address 2 answers: probes are 1 then 2, 3 is never tried
C1_Witness ==
    /\ ~HasAddress
    /\ pc = "returned"
    /\ Len(probes) = 2
    /\ probes[1].address = 1 /\ probes[1].outcome = "NoResponseError"
    /\ probes[2].address = 2 /\ probes[2].outcome = "ok"

\* C2: NoDeviceFound is raised only after every address lo..hi was probed
\* once, in ascending order, each without a response; and a scan that ends
\* with every probed address silent ends in NoDeviceFound.
C2_SilentBusExhaustsRange ==
    LET silent == \A i \in 1..Len(probes) : probes[i].outcome = "NoResponseError"
    IN  /\ NoDeviceFound =>
              /\ Len(probes) = RangeHi - RangeLo + 1
              /\ \A i \in 1..Len(probes) :
                    /\ probes[i].address = RangeLo + i - 1
                    /\ probes[i].outcome = "NoResponseError"
              /\ LastProbe.address = RangeHi
        /\ (Terminal /\ silent) => NoDeviceFound
        /\ (pc = "scanning" /\ silent) => Len(probes) < RangeHi - RangeLo + 1

C2_Witness ==
    /\ ~HasAddress
    /\ NoDeviceFound
    /\ Len(probes) = 247
    /\ probes[1].address = 1
    /\ probes[247].address = 247

\* C3: a pass that fails with anything but a no-response failure is the last
\* pass: the function raises (InvalidPort or CannotOpenPort for a
\* SerialException, the exception itself otherwise) and probes no later
\* address.
C3_OtherFailureAborts ==
    \A i \in 1..Len(probes) :
        probes[i].outcome \notin {"ok", "NoResponseError"} =>
            /\ i = Len(probes)
            /\ Aborted
            /\ IF probes[i].outcome = "SerialException"
               THEN raised \in {"InvalidPort", "CannotOpenPort"}
               ELSE raised = probes[i].outcome

\* address 1 cannot open the port: 2 and 3 are never tried
C3_Witness ==
    /\ ~HasAddress
    /\ Len(probes) = 1
    /\ probes[1].address = 1
    /\ probes[1].outcome = "SerialException"
    /\ probes[1].fails_at = "RenogyRoverUART"
    /\ Aborted

C3_WitnessDecode ==
    /\ ~HasAddress
    /\ Len(probes) = 2
    /\ probes[2].outcome = "InvalidResponseError"
    /\ Aborted /\ raised = "InvalidResponseError"

\* C4: at most hi-lo+1 probes, no address twice; a finished scan is in
\* exactly one of Found, NoDeviceFound, Aborted and takes no further step; a
\* running scan can always take a step, every step of it makes one probe,
\* and a step that leaves it running moves to the next address, which is
\* still in the range: the scan ends within hi-lo+1 probes.
C4_Bounded ==
    /\ Len(probes) <= RangeHi - RangeLo + 1
    /\ Cardinality({probes[i].address : i \in 1..Len(probes)}) = Len(probes)
    /\ Terminal => (Found \/ NoDeviceFound \/ Aborted)
    /\ ~(Found /\ NoDeviceFound) /\ ~(Found /\ Aborted) /\ ~(NoDeviceFound /\ Aborted)
    /\ pc = "scanning" =>
          /\ device_address \in RangeLo..RangeHi
          /\ ENABLED ScanAny

C4_Step ==
    /\ ~Terminal
    /\ pc = "scanning" =>
          /\ Len(probes') = Len(probes) + 1
          /\ pc' \in {"scanning", "returned", "raised"}
          /\ pc' = "scanning" => device_address' = device_address + 1

C4_ScanTerminates == []C4_Bounded /\ [][C4_Step]_vars

\* the full range is used up and the last address answers
C4_Witness ==
    /\ ~HasAddress
    /\ Found
    /\ Len(probes) = 247

\* C5: every address at which a client is constructed lies in [1,247].
C5_ClientAddressInRange ==
    \A i \in 1..Len(probes) : probes[i].address \in 1..247

\* C6: with no device address in the data the range is [1,247]; with device
\* address a it is [a,a]: one probe, at a, and no response there is
\* NoDeviceFound.
C6_ScannedRange ==
    Started =>
        /\ ~HasAddress =>
              /\ \A i \in 1..Len(probes) : probes[i].address \in 1..247
              /\ probes # <<>> => probes[1].address = 1
              /\ NoDeviceFound => {probes[i].address : i \in 1..Len(probes)} = 1..247
        /\ HasAddress =>
              /\ Len(probes) <= 1
              /\ pc = "scanning" => probes = <<>>
              /\ Terminal =>
                    /\ Len(probes) = 1
                    /\ probes[1].address = data[ATTR_DEVICE_ADDRESS]
                    /\ probes[1].outcome = "NoResponseError" => NoDeviceFound

C6_Witness ==
    /\ HasAddress
    /\ data[ATTR_DEVICE_ADDRESS] = 5
    /\ Len(probes) = 1
    /\ probes[1].address = 5
    /\ probes[1].outcome = "NoResponseError"
    /\ NoDeviceFound

C6_WitnessFullRange ==
    /\ ~HasAddress
    /\ NoDeviceFound
    /\ {probes[i].address : i \in 1..Len(probes)} = 1..247

\* C7: the returned device_info holds the found address and the serial
\* number, versions and model read at that address; every earlier pass
\* ended in a no-response failure and left nothing in the result.
C7_FoundInfoFromFoundAddress ==
    pc = "returned" =>
        LET a == LastProbe.address
            ver == version(DeviceRegisters(a, 20, 4))
        IN  /\ Found
            /\ \A i \in 1..(Len(probes) - 1) : probes[i].outcome = "NoResponseError"
            /\ DOMAIN device_info =
                  {ATTR_DEVICE_ADDRESS, ATTR_SERIAL_NUMBER, ATTR_SW_VERSION,
                   ATTR_HW_VERSION, ATTR_MODEL}
            /\ device_info[ATTR_DEVICE_ADDRESS] = a
            /\ device_info[ATTR_SERIAL_NUMBER] = serial_number(DeviceRegisters(a, 24, 2))
            /\ device_info[ATTR_SW_VERSION] = ver[1]
            /\ device_info[ATTR_HW_VERSION] = ver[2]
            /\ device_info[ATTR_MODEL] = model(DeviceRegisters(a, 12, 8))

\* address 1 answers the serial number and version reads but not the model
\* read; address 2 is found
C7_Witness ==
    /\ pc = "returned"
    /\ Len(probes) = 2
    /\ probes[1].fails_at = "model" /\ probes[1].outcome = "NoResponseError"
    /\ probes[2].outcome = "ok"
    /\ device_info[ATTR_SERIAL_NUMBER] = "12342"
    /\ device_info[ATTR_SW_VERSION] = "V2.2.3"

(***************************************************************************)
(* The register decoding: claims                                           *)
(***************************************************************************)
ReturnedBy(name) == accessor = name /\ result.status = "returned"

\* the byte that encodes a temperature: t itself from 0 up, 128 + |t| below 0
Encode(t) == IF t >= 0 THEN t ELSE 128 - t

\* C8: battery_temperature decodes the low byte of the word and
\* controller_temperature the high byte: the result lies in [-127,127], and
\* it is t whenever the byte is the encoding of a t in [-127,127].
C8_TemperatureRoundTrip ==
    /\ ReturnedBy("battery_temperature") =>
          /\ result.value \in -127..127
          /\ \A t \in -127..127 :
                Encode(t) = registers[1] % 256 => result.value = t
    /\ ReturnedBy("controller_temperature") =>
          /\ result.value \in -127..127
          /\ \A t \in -127..127 :
                Encode(t) = registers[1] \div 256 => result.value = t

\* low byte 133 = 128 + 5 decodes to -5
C8_Witness ==
    /\ ReturnedBy("battery_temperature")
    /\ registers[1] % 256 = 133
    /\ result.value = -5

C8_WitnessController ==
    /\ ReturnedBy("controller_temperature")
    /\ registers[1] \div 256 = 255
    /\ result.value = -127

ChargingLabels ==
    <<"deactivated", "activated", "mppt", "equalizing", "boost", "floating",
      "current limiting">>

C9_WitnessLabel ==
    /\ ReturnedBy("charging_status_label")
    /\ registers[1] = 255 * 256 + 6
    /\ result = Returned("current limiting")

\* C10: software is V{w0 low}.{w1 high}.{w1 low} and hardware is
\* V{w2 low}.{w3 high}.{w3 low}, in decimal; the high bytes of w0 and w2
\* take no part.
C10_VersionDecode ==
    ReturnedBy("version") =>
        LET w0 == registers[1]
            w1 == registers[2]
            w2 == registers[3]
            w3 == registers[4]
        IN  /\ result.value[1] =
                  "V" \o ToString(w0 % 256) \o "." \o ToString(w1 \div 256)
                      \o "." \o ToString(w1 % 256)
            /\ result.value[2] =
                  "V" \o ToString(w2 % 256) \o "." \o ToString(w3 \div 256)
                      \o "." \o ToString(w3 % 256)
            /\ Len(result.value) = 2

\* non-zero high bytes in w0 and w2
C10_Witness ==
    /\ ReturnedBy("version")
    /\ registers = <<65290, 2815, 65280, 10>>
    /\ result.value = <<"V10.10.255", "V0.0.10">>

\* C11, as stated: the words 0x0105, 0x0203, 0x0107, 0x0402 decode to
\* software V1.2.3 and hardware V1.4.2.
C11_ExampleMajorFromHighByte ==
    (ReturnedBy("version") /\ registers = <<261, 515, 263, 1026>>) =>
        result.value = <<"V1.2.3", "V1.4.2">>

\* C11, amended: the major numbers are the low bytes of words 0 and 2 (5 and
\* 7), so the words decode to software V5.2.3 and hardware V7.4.2.
C11_ExampleMajorFromLowByte ==
    (ReturnedBy("version") /\ registers = <<261, 515, 263, 1026>>) =>
        result.value = <<"V5.2.3", "V7.4.2">>

C11_Witness ==
    /\ ReturnedBy("version")
    /\ registers = <<261, 515, 263, 1026>>
    /\ result.value[1] = "V5.2.3"

\* C12: the serial number is the decimal digits of word 0 followed at once
\* by the decimal digits of word 1: no separator, no zero padding.
C12_SerialNumberDecode ==
    ReturnedBy("serial_number") =>
        /\ result.value = ToString(registers[1]) \o ToString(registers[2])
        /\ registers = <<1234, 5678>> => result.value = "12345678"
        /\ registers = <<7, 10>> => result.value = "710"
        /\ reads = <<[register |-> 24, count |-> 2]>>

C12_Witness ==
    /\ ReturnedBy("serial_number")
    /\ registers = <<1234, 5678>>
    /\ result.value = "12345678"

\* the 16 bytes of 8 words, high byte of each word first
ModelBytes(words) ==
    [i \in 1..16 |->
        IF i % 2 = 1 THEN words[(i + 1) \div 2] \div 256 ELSE words[i \div 2] % 256]

\* the characters of the first n of the bytes, in order
RECURSIVE CharsOf(_, _)
CharsOf(bytes, n) == IF n = 0 THEN "" ELSE CharsOf(bytes, n - 1) \o chr(bytes[n])

\* the bytes left when the trailing padding (spaces, NULs) is dropped
TrimmedLen(bytes) ==
    LET kept == {i \in 1..16 : bytes[i] \notin {0, 32}}
    IN  IF kept = {} THEN 0 ELSE CHOOSE i \in kept : \A j \in kept : j <= i

PollCall ==
    /\ device' = device
    /\ result'.status = "returned"
    /\ \/ accessor' # accessor
       \/ registers' # registers
       \/ result.status # "returned"

\* C14: nothing is cached: every accessor call issues its own read of its
\* register and returns the decode of the word the controller holds at the
\* time of that call, whatever was read before; battery_temperature and
\* controller_temperature each read register 259 themselves.
C14_NoCachedMeasurement ==
    [][PollCall =>
        /\ accessor' \in {"battery_temperature", "controller_temperature"} =>
              /\ reads' = <<[register |-> 259, count |-> 1]>>
              /\ registers' = <<device[259]>>
        /\ accessor' = "battery_temperature" =>
              Encode(result'.value) = device[259] % 256
        /\ accessor' = "controller_temperature" =>
              Encode(result'.value) = device[259] \div 256
        /\ accessor' = "charging_status_label" =>
              /\ reads' = <<[register |-> 288, count |-> 1]>>
              /\ result'.value = dict_get(CHARGING_STATE, device[288] % 256)
    ]_vars

\* battery_temperature has returned the new low byte (5) of register 259
\* right after controller_temperature returned 10 from its old word
C14_Witness ==
    /\ ReturnedBy("battery_temperature")
    /\ device[259] = 35333
    /\ result.value = 5
    /\ ToString(native_value["ControllerTemperatureSensor"]) = "10"

(***************************************************************************)
(* The config flow and the entry lifecycle: claims                         *)
(***************************************************************************)
\* the serial step has shown its form again after a submission
UartFormAfterSubmission ==
    /\ flow_result.type = "form"
    /\ flow_result.step_id = "uart"
    /\ attempt.outcome.status # "none"

\* C15: a failed serial pairing sets exactly one error code, chosen by what
\* went wrong: SerialException with errno 19 is InvalidPort and
\* "invalid_serial_port", any other SerialException is CannotOpenPort and
\* "cannot_open_serial_port", a scan that ran out of addresses is
\* NoDeviceFound and "no_device_found", anything else is "cannot_connect".
C15_SerialFailuresKeptDistinct ==
    UartFormAfterSubmission =>
        LET cause == attempt.outcome.cause
            errors == flow_result.errors
        IN  /\ attempt.outcome.status = "raised"
            /\ DOMAIN errors = {"base"}
            /\ IF cause.class = "SerialException" /\ cause.errno = 19
               THEN attempt.outcome.raised = "InvalidPort"
                    /\ errors["base"] = "invalid_serial_port"
               ELSE IF cause.class = "SerialException"
               THEN attempt.outcome.raised = "CannotOpenPort"
                    /\ errors["base"] = "cannot_open_serial_port"
               ELSE IF cause.class = "NoResponseError"
               THEN attempt.outcome.raised = "NoDeviceFound"
                    /\ errors["base"] = "no_device_found"
               ELSE errors["base"] = "cannot_connect"

C15_Witness ==
    /\ UartFormAfterSubmission
    /\ attempt.outcome.cause = [class |-> "SerialException", errno |-> 19]
    /\ flow_result.errors["base"] = "invalid_serial_port"

C15_WitnessOtherFailure ==
    /\ UartFormAfterSubmission
    /\ attempt.outcome.cause.class = "ValueError"
    /\ flow_result.errors["base"] = "cannot_connect"

\* C16: the client async_setup_entry stores for a TCP entry connects to the
\* host and port the config flow connected to when it validated the entry,
\* which is the port the entry holds.
C16_TcpClientUsesConfiguredPort ==
    \A e \in DOMAIN hass_data :
        entries[e].data[CONF_TYPE] = DEVICE_TYPE_TCP =>
            /\ hass_data[e] = tcp_client(entries[e].data, merge_side)
            /\ hass_data[e].host = entries[e].data[CONF_HOST]
            /\ CONF_PORT \in DOMAIN entries[e].data =>
                  hass_data[e].port = entries[e].data[CONF_PORT]

\* the table holds a client for the entry exactly when the last successful
\* operation on the entry was a setup
C17_ClientIffSetUp ==
    /\ DOMAIN hass_data \subseteq 1..Len(entries)
    /\ \A e \in 1..Len(entries) :
          e \in DOMAIN hass_data <=> dict_get_default(last_ok, e, "none") = "setup"

\* a client leaves the table only by an unload whose platforms unloaded, and
\* an unload that failed leaves the table as it was
C17_RemovedOnlyByUnload ==
    /\ \A e \in DOMAIN hass_data :
          e \notin DOMAIN hass_data' =>
              /\ last_op'.op = "unload"
              /\ last_op'.entry_id = e
              /\ last_op'.result = "True"
    /\ (last_op'.op = "unload" /\ last_op'.result # "True") => hass_data' = hass_data

\* C17: after any sequence of setups and unloads the client table holds at
\* most one client per entry, and holds one exactly when the last
\* successful operation on the entry was a setup; async_unload_entry removes
\* the client only when unloading the platforms succeeded.
C17_ClientTableLifecycle ==
    []C17_ClientIffSetUp /\ [][C17_RemovedOnlyByUnload]_vars

\* an unload failed and the client of the entry is still in the table
C17_Witness ==
    /\ last_op.op = "unload"
    /\ last_op.result = "False"
    /\ last_op.entry_id \in DOMAIN hass_data
    /\ last_ok[last_op.entry_id] = "setup"

C17_WitnessRemoved ==
    /\ last_op.op = "unload"
    /\ last_op.result = "True"
    /\ last_op.entry_id \notin DOMAIN hass_data

\* what the last setup says about the serial number it read
C19_SetupChecksSerial ==
    last_op.op = "setup" =>
        LET entry == entries[last_op.entry_id]
        IN  /\ last_op.result = "True" =>
                  /\ last_op.device_info[ATTR_SERIAL_NUMBER] = entry.data[ATTR_SERIAL_NUMBER]
                  /\ last_op.entry_id \in DOMAIN hass_data
                  /\ last_op.entry_id \in platforms
            /\ last_op.result = "False" =>
                  last_op.device_info[ATTR_SERIAL_NUMBER] # entry.data[ATTR_SERIAL_NUMBER]

\* a client is stored and platforms are forwarded only by a setup that
\* returned True; a setup that returned False or raised changes neither
C19_StoresOnlyOnMatch ==
    /\ (hass_data' # hass_data /\ last_op'.op = "setup") => last_op'.result = "True"
    /\ platforms' \ platforms # {} => (last_op'.op = "setup" /\ last_op'.result = "True")
    /\ (last_op'.op = "setup" /\ last_op'.result \in {"False", "raised"}) =>
          /\ hass_data' = hass_data
          /\ platforms' = platforms

\* C19: async_setup_entry stores a client and forwards the platform setup
\* only if the serial number read back from the device equals the one in
\* the entry; on a mismatch it returns False, on a failed read it raises,
\* and both leave the client table unchanged.
C19_SetupOnlyOnMatchingSerial ==
    []C19_SetupChecksSerial /\ [][C19_StoresOnlyOnMatch]_vars

\* the device answered with another serial number: False, nothing stored
C19_Witness ==
    /\ last_op.op = "setup"
    /\ last_op.result = "False"
    /\ last_op.device_info[ATTR_SERIAL_NUMBER] # entries[last_op.entry_id].data[ATTR_SERIAL_NUMBER]
    /\ hass_data = EmptyDict

C19_WitnessStored ==
    /\ last_op.op = "setup"
    /\ last_op.result = "True"
    /\ last_op.entry_id \in DOMAIN hass_data

\* a form of the uart or tcp step is open: the next step is a submission
Submission ==
    /\ flow_result.type \in {"form", "raised"}
    /\ flow_result.step_id \in {"uart", "tcp"}

\* a failed attempt creates no entry and leaves init_info, the device type
FailedAttemptKeepsInitInfo ==
    (Submission /\ attempt'.outcome.status = "raised") =>
        /\ entries' = entries
        /\ init_info' = init_info
        /\ init_info' = dict_set(EmptyDict, CONF_TYPE, flow_result.step_id)
        /\ flow_result'.type \in {"form", "raised"}

\* the attempt creates one entry: device type, submitted fields, device info
CreatesOneEntry ==
    /\ Len(entries') = Len(entries) + 1
    /\ SubSeq(entries', 1, Len(entries)) = entries
    /\ flow_result'.type = "create_entry"
    /\ LET created == entries'[Len(entries')].data
           info == attempt'.outcome.device_info
       IN  /\ DOMAIN created = DOMAIN info \cup DOMAIN attempt'.user_input
           /\ CONF_TYPE \in DOMAIN created
           /\ created[CONF_TYPE] = init_info[CONF_TYPE]
           /\ \A k \in DOMAIN attempt'.user_input : created[k] = attempt'.user_input[k]
           /\ \A k \in DOMAIN info : created[k] = info[k]
           /\ flow_result.step_id = "uart" => CONF_PORT \in DOMAIN created
           /\ flow_result.step_id = "tcp" => CONF_HOST \in DOMAIN created

\* C20, as stated: in the uart and tcp steps a failed attempt creates no
\* entry and leaves init_info unchanged, and a successful attempt creates
\* exactly one entry holding the device type, the submitted connection
\* fields and the device info of that attempt.
C20_SuccessCreatesOneEntry ==
    [][/\ FailedAttemptKeepsInitInfo
       /\ (Submission /\ attempt'.outcome.status = "returned") => CreatesOneEntry
    ]_vars

\* C20, amended: a successful attempt creates that one entry unless the
\* serial number it read is the unique id of an existing entry; then the
\* flow aborts with "already_configured" and creates no entry.
C20_SuccessCreatesOneEntryUnlessConfigured ==
    [][/\ FailedAttemptKeepsInitInfo
       /\ (Submission /\ attempt'.outcome.status = "returned") =>
             IF \E i \in 1..Len(entries) :
                   entries[i].unique_id = attempt'.outcome.device_info[ATTR_SERIAL_NUMBER]
             THEN /\ Len(entries') = Len(entries)
                  /\ flow_result'.type = "abort"
                  /\ flow_result'.reason = "already_configured"
             ELSE CreatesOneEntry
    ]_vars

\* the flow has created the entry of the device found at address 247
C20_Witness ==
    /\ flow_result.type = "create_entry"
    /\ flow_result.step_id = "uart"
    /\ Len(entries) = 1
    /\ entries[1].data[CONF_TYPE] = DEVICE_TYPE_UART
    /\ entries[1].data[CONF_PORT] = ComPort
    /\ entries[1].data[ATTR_DEVICE_ADDRESS] = MAX_DEVICE_ADDRESS
    /\ entries[1].data[ATTR_SERIAL_NUMBER] = attempt.outcome.device_info[ATTR_SERIAL_NUMBER]

\* the device found is configured already: the flow has aborted
C20_WitnessAbort ==
    /\ flow_result.type = "abort"
    /\ flow_result.reason = "already_configured"
    /\ Len(entries) = 1
    /\ attempt.outcome.status = "returned"

\* C18: the polling layer never has two register reads in flight on the
\* client of an entry: its sensors share the client and the platform allows
\* one update at a time, so in every interleaving of the scheduled updates
\* at most one update() is executing.
C18_OneReadInFlight ==
    Cardinality(Updating) <= 1

\* one update is executing while every other sensor waits for its turn
C18_Witness ==
    /\ sensor_pc["ControllerTemperatureSensor"] = "updating"
    /\ \A s \in Sensors \ {"ControllerTemperatureSensor"} : sensor_pc[s] = "waiting"

\* Lemma linking the scan and its summary: however a call of
\* connect_and_read_device_info ends under Spec, connect_results holds that
\* outcome, with the exception of the last pass as its cause.
ScanOutcomeSummarised ==
    Terminal =>
        \E o \in connect_results(data, DeviceAddresses) :
            /\ o.status = pc
            /\ pc = "returned" => o.device_info = device_info
            /\ pc = "raised" => o.raised = raised /\ o.cause.class = LastProbe.outcome

\* Lemma linking the flow and the lifecycle: every entry the flow creates is
\* one the lifecycle starts from.
FlowEntriesAreEntryInputs ==
    /\ Len(entries) <= MaxEntries
    /\ \A i \in 1..Len(entries) :
          /\ IF entries[i].data[CONF_TYPE] = DEVICE_TYPE_UART
             THEN entries[i] \in UartEntryInputs
             ELSE entries[i] \in TcpEntryInputs(merge_side)
          /\ \A j \in 1..Len(entries) : entries[i].unique_id = entries[j].unique_id => i = j

====
